---------------------------- MODULE Spec2Model ----------------------------
(***************************************************************************)
(* Measurement store of api-riosanjuan: POST /mediciones (crear_mediciones)*)
(* and GET /mediciones (consultar_mediciones) of src/app.py, with the      *)
(* table "mediciones" (primary key (id_sensor, fecha_hora), foreign key to *)
(* "sensores") behind the SQLAlchemy session.  src/ola.py is the same pair *)
(* of handlers with English names.                                         *)
(*                                                                         *)
(* Instants are integers (hours); a timestamp text is a wall-clock hour    *)
(* together with its zone suffix.  Values are integers standing for the    *)
(* floats the handler stores.                                              *)
(***************************************************************************)
EXTENDS Integers, Sequences, FiniteSets, TLC

VARIABLES
    sensores,     \* ids of the rows of table "sensores" (the catalog)
    mediciones,   \* committed rows of table "mediciones"
    antes,        \* the committed rows when the last request started
    req,          \* the last request received
    resp,         \* the response to the last request
    pc,           \* concurrent workers: where each one is in crear_mediciones
    lote,         \* ... its validated list (the handler's local `mediciones`)
    idx,          \* ... the position in the list of its next merge
    sesion,       \* ... its session and open transaction
    salida,       \* ... its response
    orden,        \* the workers that committed, in commit order
    historia      \* the committed rows at the start and after each COMMIT

conc == <<pc, lote, idx, sesion, salida, orden, historia>>

vars == <<sensores, mediciones, antes, req, resp, pc, lote, idx, sesion, salida, orden,
          historia>>

(***************************************************************************)
(* Bounds of the model.                                                    *)
(***************************************************************************)
MaxBatch == 2

\* the most readings the bulk specification stores for one sensor
MaxBulk == 150

(***************************************************************************)
(* Raw values: what a JSON body or a query string can carry.               *)
(*   tag "absent"  the key / the parameter is not there                    *)
(*   tag "null"    JSON null                                               *)
(*   tag "list"    a JSON array (a non-scalar)                             *)
(*   tag "int"     a JSON integer n                                        *)
(*   tag "numstr"  a string holding the decimal integer n                  *)
(*   tag "text"    any other string s                                      *)
(*   tag "ts"      a string holding wall-clock hour n with zone suffix     *)
(*                 zone: "Z", "" (naive), "+01:00", or "bad" (malformed)   *)
(***************************************************************************)
Raw(tag, n, s, zone) == [tag |-> tag, n |-> n, s |-> s, zone |-> zone]
Absent == Raw("absent", 0, "", "")
Null == Raw("null", 0, "", "")
List == Raw("list", 0, "", "")
JInt(n) == Raw("int", n, "", "")
NumStr(n) == Raw("numstr", n, "", "")
Text(s) == Raw("text", 0, s, "")
Ts(n, zone) == Raw("ts", n, "", zone)

(***************************************************************************)
(* A row of table mediciones, and its primary key.                         *)
(***************************************************************************)
Medicion(id_sensor, fecha_hora, valor) ==
    [id_sensor |-> id_sensor, fecha_hora |-> fecha_hora, valor |-> valor]

pk(m) == <<m.id_sensor, m.fecha_hora>>

(***************************************************************************)
(* parse_iso_datetime: value.replace("Z", "+00:00"), fromisoformat, and a  *)
(* naive result gets tzinfo = UTC.  Every exception (a non-string value    *)
(* has no .replace, a malformed text does not parse) becomes ValueError.   *)
(* The result is the instant: wall-clock hour minus the offset.            *)
(***************************************************************************)
ReplaceZ(zone) == IF zone = "Z" THEN "+00:00" ELSE zone

OffsetOf(zone) ==
    CASE zone = "+00:00" -> 0
      [] zone = "+01:00" -> 1
      [] OTHER -> 0

\* a text without zone read as the wall clock of a server one hour east
AssumeUTC_local(zone) == IF zone = "" THEN "+01:00" ELSE zone

AssumeUTC(zone) == IF zone = "" THEN "+00:00" ELSE zone

parse_iso_datetime(value) ==
    IF value.tag # "ts" \/ ReplaceZ(value.zone) \notin {"", "+00:00", "+01:00"}
    THEN [ok |-> FALSE, dt |-> 0]
    ELSE [ok |-> TRUE,
          dt |-> value.n - OffsetOf(AssumeUTC(ReplaceZ(value.zone)))]

\* datetime.isoformat() of a stored instant (timezone-aware column)
isoformat(dt) == Ts(dt, "+00:00")

(***************************************************************************)
(* Python int(x) / float(x) on a raw value.                                *)
(***************************************************************************)
Coerce(x) ==
    CASE x.tag \in {"int", "numstr"} -> [st |-> "ok", n |-> x.n]
      [] x.tag \in {"null", "list"} -> [st |-> "TypeError", n |-> 0]
      [] OTHER -> [st |-> "ValueError", n |-> 0]

(***************************************************************************)
(* Responses.                                                              *)
(***************************************************************************)
Resp(kind, status, error, item, motivo, details, data, insertados) ==
    [kind |-> kind, ok |-> (kind = "ok"), status |-> status, error |-> error,
     item |-> item, motivo |-> motivo, details |-> details, data |-> data,
     insertados |-> insertados]

NoResp == Resp("none", 0, "", 0, "", FALSE, <<>>, -1)

\* a count that stops one short of the batch
ok_insertados_menos(n) == Resp("ok", 201, "", 0, "", FALSE, <<>>, n - 1)

ok_insertados(n) == Resp("ok", 201, "", 0, "", FALSE, <<>>, n)

ok_data(data) == Resp("ok", 200, "", 0, "", FALSE, data, -1)

fail(message, item, motivo, details) ==
    Resp("fail", 400, message, item, motivo, details, <<>>, -1)

\* an exception no except clause of the handler catches: it leaves the
\* handler and the framework answers 500 without the {ok, error} body
Unhandled(exc) == Resp("unhandled", 500, "", 0, exc, FALSE, <<>>, -1)


(***************************************************************************)
(* Request bodies of POST /mediciones.  An item is a JSON object with the  *)
(* three fields (each a raw value, Absent when the key is missing) or a    *)
(* JSON value that is not an object.  get_json(silent=True) gives None for *)
(* an empty or unparsable body (kind "none"), a list (kind "list") or one  *)
(* value (kind "single").                                                  *)
(***************************************************************************)
Item(id_sensor, fecha_hora, valor) ==
    [tag |-> "obj", id_sensor |-> id_sensor, fecha_hora |-> fecha_hora,
     valor |-> valor]

NonObject == [tag |-> "nonobj", id_sensor |-> Absent, fecha_hora |-> Absent,
              valor |-> Absent]

Payload(kind, body) == [kind |-> kind, body |-> body]

\* items = payload if isinstance(payload, list) else [payload]
ItemsOf(payload) == payload.body

(***************************************************************************)
(* The body of the validation loop for one item:                           *)
(*     id_sensor = int(item["id_sensor"])                                  *)
(*     fecha_hora = parse_iso_datetime(item["fecha_hora"])                 *)
(*     valor = float(item["valor"])                                        *)
(* st is "ok" or "raise" with the exception class: KeyError for a missing  *)
(* key, ValueError for a string that does not convert or a timestamp that  *)
(* does not parse, TypeError for subscripting a value that is not an       *)
(* object and for int(None), float([..]).                                  *)
(***************************************************************************)
ItemResult(st, exc, campo, med) == [st |-> st, exc |-> exc, campo |-> campo, med |-> med]

NoMed == Medicion(0, 0, 0)

Raises(exc, campo) == ItemResult("raise", exc, campo, NoMed)

ValidarItem(item) ==
    IF item.tag # "obj" THEN Raises("TypeError", "item")
    ELSE IF item.id_sensor.tag = "absent" THEN Raises("KeyError", "id_sensor")
    ELSE IF Coerce(item.id_sensor).st # "ok"
    THEN Raises(Coerce(item.id_sensor).st, "id_sensor")
    ELSE IF item.fecha_hora.tag = "absent" THEN Raises("KeyError", "fecha_hora")
    ELSE IF ~parse_iso_datetime(item.fecha_hora).ok
    THEN Raises("ValueError", "fecha_hora")
    ELSE IF item.valor.tag = "absent" THEN Raises("KeyError", "valor")
    ELSE IF Coerce(item.valor).st # "ok" THEN Raises(Coerce(item.valor).st, "valor")
    ELSE ItemResult("ok", "", "",
                    Medicion(Coerce(item.id_sensor).n,
                             parse_iso_datetime(item.fecha_hora).dt,
                             Coerce(item.valor).n))

\* except (KeyError, ValueError) as e: return fail(...)
Atrapadas == {"KeyError", "ValueError"}

(***************************************************************************)
(* for i, item in enumerate(items, start=1): ... mediciones.append(...)    *)
(* The loop stops at the first item that raises.                           *)
(***************************************************************************)
RECURSIVE ValidarDesde(_, _, _)
ValidarDesde(items, i, acc) ==
    IF i > Len(items)
    THEN [st |-> "ok", item |-> 0, exc |-> "", campo |-> "", meds |-> acc]
    ELSE LET r == ValidarItem(items[i]) IN
         IF r.st = "ok" THEN ValidarDesde(items, i + 1, Append(acc, r.med))
         ELSE [st |-> "raise", item |-> i, exc |-> r.exc, campo |-> r.campo,
               meds |-> <<>>]

Validar(items) == ValidarDesde(items, 1, <<>>)

(***************************************************************************)
(* The session and its transaction.                                        *)
(*   ident     the persistent objects of the identity map, each with the   *)
(*             value last loaded or flushed                                *)
(*   pend      the change not yet flushed: at most one, because merge()    *)
(*             autoflushes before it looks an object up                    *)
(*   escritos  the writes flushed and not committed: tipo "ins" (INSERT)   *)
(*             or "upd" (UPDATE ... WHERE primary key)                     *)
(***************************************************************************)
Tx(ident, pend, escritos) == [ident |-> ident, pend |-> pend, escritos |-> escritos]

TxVacia == Tx({}, <<>>, {})

Write(tipo, row) == [tipo |-> tipo, row |-> row]

Keys(rows) == {pk(r) : r \in rows}

\* an UPDATE whose WHERE names the sensor and not the instant: it replaces
\* the value of every row of the sensor
Aplicar_sin_instante(tabla, escritos) ==
    {IF \E w \in escritos : w.tipo = "upd" /\ w.row.id_sensor = r.id_sensor
     THEN Medicion(r.id_sensor, r.fecha_hora,
                   (CHOOSE w \in escritos :
                       w.tipo = "upd" /\ w.row.id_sensor = r.id_sensor).row.valor)
     ELSE r : r \in tabla}
    \cup {w.row : w \in {x \in escritos : x.tipo = "ins"}}

\* the rows once the writes are applied: an INSERT adds a row, an UPDATE
\* replaces the row that has its primary key
Aplicar(tabla, escritos) ==
    {IF \E w \in escritos : w.tipo = "upd" /\ pk(w.row) = pk(r)
     THEN (CHOOSE w \in escritos : w.tipo = "upd" /\ pk(w.row) = pk(r)).row
     ELSE r : r \in tabla}
    \cup {w.row : w \in {x \in escritos : x.tipo = "ins"}}

\* a later write to a row the transaction already wrote is dropped: the
\* first write stays
Registrar_primero(escritos, w) ==
    IF \E x \in escritos : pk(x.row) = pk(w.row)
    THEN escritos
    ELSE escritos \cup {w}

\* a later write of the same transaction to a row it already wrote
Registrar(escritos, w) ==
    IF \E x \in escritos : pk(x.row) = pk(w.row)
    THEN {IF pk(x.row) = pk(w.row) THEN Write(x.tipo, w.row) ELSE x : x \in escritos}
    ELSE escritos \cup {w}

Recordar(ident, row) == {o \in ident : pk(o) # pk(row)} \cup {row}

(***************************************************************************)
(* flush: send the pending change to the database.                         *)
(* INSERT: waits while another transaction holds an uncommitted write of   *)
(* the key (ajenos); fails on the primary key when a row with the key is   *)
(* there; fails on the foreign key when id_sensor is not in sensores.      *)
(* UPDATE: waits for the row lock; fails when no row has the key.          *)
(***************************************************************************)
FlushResult(st, tx) == [st |-> st, tx |-> tx]

\* a table whose id_sensor column has no foreign key: any sensor is taken
flush_sin_fk(tx, tabla, sens, ajenos) ==
    IF tx.pend = <<>> THEN FlushResult("ok", tx)
    ELSE LET w == tx.pend[1]
             visto == Aplicar(tabla, tx.escritos)
             hecho == Tx(Recordar(tx.ident, w.row), <<>>, Registrar(tx.escritos, w))
         IN  IF pk(w.row) \in ajenos THEN FlushResult("blocked", tx)
             ELSE IF w.tipo = "ins"
             THEN IF pk(w.row) \in Keys(visto) THEN FlushResult("error", tx)
                  ELSE FlushResult("ok", hecho)
             ELSE IF pk(w.row) \notin Keys(visto) THEN FlushResult("error", tx)
                  ELSE FlushResult("ok", hecho)

flush(tx, tabla, sens, ajenos) ==
    IF tx.pend = <<>> THEN FlushResult("ok", tx)
    ELSE LET w == tx.pend[1]
             visto == Aplicar(tabla, tx.escritos)
             hecho == Tx(Recordar(tx.ident, w.row), <<>>, Registrar(tx.escritos, w))
         IN  IF pk(w.row) \in ajenos THEN FlushResult("blocked", tx)
             ELSE IF w.tipo = "ins"
             THEN IF pk(w.row) \in Keys(visto) THEN FlushResult("error", tx)
                  ELSE IF w.row.id_sensor \notin sens THEN FlushResult("error", tx)
                  ELSE FlushResult("ok", hecho)
             ELSE IF pk(w.row) \notin Keys(visto) THEN FlushResult("error", tx)
                  ELSE FlushResult("ok", hecho)

(***************************************************************************)
(* db.session.merge(m): autoflush, then the object with m's primary key is *)
(* taken from the identity map, else SELECTed by primary key, else created *)
(* as a new pending object (INSERT at the next flush).  m's valor is       *)
(* copied onto a found object; the next flush UPDATEs it only when the     *)
(* value differs from the one loaded.                                      *)
(***************************************************************************)
Buscar(rows, m) == {r \in rows : pk(r) = pk(m)}

\* a merge that finds the object and leaves its value as it was
Copiar_sin_copiar(tx, o, m) == Tx(tx.ident \cup {o}, <<>>, tx.escritos)

Copiar(tx, o, m) ==
    IF o.valor = m.valor THEN Tx(tx.ident \cup {o}, <<>>, tx.escritos)
    ELSE Tx(tx.ident \cup {o}, <<Write("upd", m)>>, tx.escritos)

\* session.add(m) in place of merge(m): no lookup, always a new object
merge_lookup_add(tx, tabla, m) == Tx(tx.ident, <<Write("ins", m)>>, tx.escritos)

merge_lookup(tx, tabla, m) ==
    IF Buscar(tx.ident, m) # {}
    THEN Copiar(tx, CHOOSE o \in Buscar(tx.ident, m) : TRUE, m)
    ELSE IF Buscar(Aplicar(tabla, tx.escritos), m) # {}
    THEN Copiar(tx, CHOOSE o \in Buscar(Aplicar(tabla, tx.escritos), m) : TRUE, m)
    ELSE Tx(tx.ident, <<Write("ins", m)>>, tx.escritos)

merge(tx, tabla, sens, ajenos, m) ==
    LET f == flush(tx, tabla, sens, ajenos) IN
    IF f.st # "ok" THEN f
    ELSE FlushResult("ok", merge_lookup(f.tx, tabla, m))

\* a commit after which the table holds the transaction's rows and no other
commit_solo_lote(tabla, tx) == {w.row : w \in tx.escritos}

\* db.session.commit(): flush, then COMMIT makes the writes the table's
commit(tabla, tx) == Aplicar(tabla, tx.escritos)

\* a rollback that leaves the flushed writes in the table
rollback_parcial(tabla, tx) == Aplicar(tabla, tx.escritos)

\* db.session.rollback(): the transaction's writes are discarded
rollback(tabla, tx) == tabla

(***************************************************************************)
(* try: for m in mediciones: db.session.merge(m); db.session.commit()      *)
(* except Exception: db.session.rollback()                                 *)
(* run without any other transaction in progress.                          *)
(***************************************************************************)
RECURSIVE PersistirDesde(_, _, _, _, _)
PersistirDesde(meds, i, tx, tabla, sens) ==
    IF i > Len(meds)
    THEN LET f == flush(tx, tabla, sens, {}) IN
         IF f.st = "ok" THEN [st |-> "ok", tabla |-> commit(tabla, f.tx)]
         ELSE [st |-> "error", tabla |-> rollback(tabla, f.tx)]
    ELSE LET r == merge(tx, tabla, sens, {}, meds[i]) IN
         IF r.st = "ok" THEN PersistirDesde(meds, i + 1, r.tx, tabla, sens)
         ELSE [st |-> "error", tabla |-> rollback(tabla, r.tx)]

Persistir(meds, tabla, sens) == PersistirDesde(meds, 1, TxVacia, tabla, sens)

(***************************************************************************)
(* crear_mediciones: the handler of POST /mediciones, as one request that  *)
(* runs alone.  Gives the response and the table after it.                 *)
(***************************************************************************)
Outcome(r, tabla) == [resp |-> r, tabla |-> tabla]

crear_mediciones(payload, tabla, sens) ==
    IF payload.kind = "none"
    THEN Outcome(fail("JSON invalido o vacio", 0, "", FALSE), tabla)
    ELSE LET v == Validar(ItemsOf(payload)) IN
         IF v.st = "raise"
         THEN IF v.exc \in Atrapadas
              THEN Outcome(fail("Item invalido", v.item, v.campo, FALSE), tabla)
              ELSE Outcome(Unhandled(v.exc), tabla)
         ELSE LET p == Persistir(v.meds, tabla, sens) IN
              IF p.st = "ok" THEN Outcome(ok_insertados(Len(v.meds)), p.tabla)
              ELSE Outcome(fail("No se pudieron guardar las mediciones", 0, "", TRUE),
                           p.tabla)

(***************************************************************************)
(* Query string of GET /mediciones: each parameter a raw value.            *)
(***************************************************************************)
Args(id_sensor, desde, hasta, limit, order) ==
    [id_sensor |-> id_sensor, desde |-> desde, hasta |-> hasta, limit |-> limit,
     order |-> order]

\* request.args.get(key, default, type=int): the default when the key is
\* absent or its text is not an integer.  def = FALSE stands for None.
Opt(def, n) == [def |-> def, n |-> n]

args_get_int(x, default) == IF x.tag = "numstr" THEN Opt(TRUE, x.n) ELSE default

\* str.lower() on the order tokens
Lower(s) ==
    CASE s \in {"asc", "ASC", "Asc"} -> "asc"
      [] s \in {"desc", "DESC"} -> "desc"
      [] OTHER -> s

\* a handler whose default order is ascending
args_get_order_asc(x) ==
    IF x.tag = "absent" THEN "asc"
    ELSE IF x.tag = "text" THEN Lower(x.s)
    ELSE "0"

\* request.args.get("order", default="desc", type=str).lower(); a token that
\* is digits or a timestamp stays what it is, which is not "asc"
args_get_order(x) ==
    IF x.tag = "absent" THEN "desc"
    ELSE IF x.tag = "text" THEN Lower(x.s)
    ELSE "0"

\* `if desde:` -- a parameter that is there and not the empty string
Truthy(x) == x.tag # "absent" /\ x # Text("")

DefaultLimit == 100

(***************************************************************************)
(* ORDER BY fecha_hora: the rows by increasing instant.                    *)
(***************************************************************************)
RECURSIVE SetToSeq(_)
SetToSeq(S) ==
    IF S = {} THEN <<>>
    ELSE LET x == CHOOSE y \in S : TRUE IN <<x>> \o SetToSeq(S \ {x})

RECURSIVE AscFrom(_, _, _)
AscFrom(rows, t, hi) ==
    IF t > hi THEN <<>>
    ELSE SetToSeq({r \in rows : r.fecha_hora = t}) \o AscFrom(rows, t + 1, hi)

OrderAsc(rows) ==
    IF rows = {} THEN <<>>
    ELSE LET ts == {r.fecha_hora : r \in rows}
             lo == CHOOSE t \in ts : \A u \in ts : t <= u
             hi == CHOOSE t \in ts : \A u \in ts : u <= t
         IN  AscFrom(rows, lo, hi)

Reverse(s) == [i \in 1..Len(s) |-> s[Len(s) + 1 - i]]

OrderDesc(rows) == Reverse(OrderAsc(rows))

\* a limit that lets one row too many through
Limit_mas_uno(s, limit) == SubSeq(s, 1, IF limit + 1 < Len(s) THEN limit + 1 ELSE Len(s))

\* q.limit(limit)
Limit(s, limit) == SubSeq(s, 1, IF limit < Len(s) THEN limit ELSE Len(s))

\* .where(Medicion.fecha_hora >= desde) / .where(Medicion.fecha_hora <= hasta)
Desde_exclusivo(rows, dt) == {r \in rows : r.fecha_hora > dt}

Desde(rows, dt) == {r \in rows : r.fecha_hora >= dt}

Hasta(rows, dt) == {r \in rows : r.fecha_hora <= dt}

\* db.select(Medicion).where(Medicion.id_sensor == id_sensor)
DelSensor(rows, id_sensor) == {r \in rows : r.id_sensor = id_sensor}

Ordenar(rows, order) == IF order = "asc" THEN OrderAsc(rows) ELSE OrderDesc(rows)

\* the dict built for each row of the result
Fila(r) == [id_sensor |-> r.id_sensor, fecha_hora |-> isoformat(r.fecha_hora),
            valor |-> r.valor]

\* `if id_sensor is None:` -- 0 passes
Falta_solo_none(id_sensor) == ~id_sensor.def

\* `if not id_sensor:` -- None or 0
Falta(id_sensor) == ~id_sensor.def \/ id_sensor.n = 0

(***************************************************************************)
(* consultar_mediciones: the handler of GET /mediciones.  fault: the       *)
(* database raises while the SELECT runs.                                  *)
(***************************************************************************)
consultar_mediciones(args, tabla, fault) ==
    LET id_sensor == args_get_int(args.id_sensor, Opt(FALSE, 0))
        limit == args_get_int(args.limit, Opt(TRUE, DefaultLimit)).n
        order == args_get_order(args.order)
        q1 == DelSensor(tabla, id_sensor.n)
        q2 == IF Truthy(args.desde)
              THEN Desde(q1, parse_iso_datetime(args.desde).dt) ELSE q1
        q3 == IF Truthy(args.hasta)
              THEN Hasta(q2, parse_iso_datetime(args.hasta).dt) ELSE q2
        rows == Limit(Ordenar(q3, order), limit)
    IN  IF Falta(id_sensor)
        THEN fail("Parametro id_sensor es obligatorio", 0, "", FALSE)
        ELSE IF Truthy(args.desde) /\ ~parse_iso_datetime(args.desde).ok
        THEN fail("fecha_hora debe venir en formato ISO 8601", 0, "desde", FALSE)
        ELSE IF Truthy(args.hasta) /\ ~parse_iso_datetime(args.hasta).ok
        THEN fail("fecha_hora debe venir en formato ISO 8601", 0, "hasta", FALSE)
        ELSE IF fault THEN fail("Error al consultar mediciones", 0, "", TRUE)
        ELSE ok_data([i \in 1..Len(rows) |-> Fila(rows[i])])

\* a handler that deletes the readings it has returned
TrasConsulta_consume(r, tabla) ==
    {x \in tabla : \A i \in 1..Len(r.data) : r.data[i] # Fila(x)}

\* the table after the request that answered r: the handler copies the rows
\* it loaded into dictionaries, assigns to no loaded object, sends no other
\* statement than the SELECT and never commits
TrasConsulta(r, tabla) == tabla

(***************************************************************************)
(* Requests.                                                               *)
(***************************************************************************)
NoArgs == Args(Absent, Absent, Absent, Absent, Absent)

NoPayload == Payload("none", <<>>)

Request(op, payload, args, fault) ==
    [op |-> op, payload |-> payload, args |-> args, fault |-> fault]

NoRequest == Request("none", NoPayload, NoArgs, FALSE)

(***************************************************************************)
(* The inputs of the model.  Sensors 1 and 2 are in the catalog, sensor 3  *)
(* is not.  Instants 1, 2 and 3 are written as "1Z" or "1" (naive), "2Z",  *)
(* and "4+01:00".                                                          *)
(***************************************************************************)
Catalogo == {1, 2}

ValidItems ==
    {Item(JInt(1), Ts(1, "Z"), JInt(5)),
     Item(JInt(1), Ts(1, ""), JInt(9)),
     Item(JInt(1), Ts(2, "Z"), JInt(5)),
     Item(JInt(1), Ts(4, "+01:00"), JInt(5)),
     Item(NumStr(2), Ts(1, "Z"), NumStr(9)),
     Item(JInt(3), Ts(1, "Z"), JInt(5))}

BadItems ==
    {Item(JInt(1), Ts(1, "bad"), JInt(5)),
     Item(Null, Ts(1, "Z"), JInt(5)),
     Item(JInt(1), Ts(1, "Z"), Absent),
     Item(JInt(1), Ts(1, "Z"), Text("abc")),
     Item(JInt(1), Ts(1, "Z"), List),
     NonObject}

SeqsUpTo(S, n) == UNION {[1..k -> S] : k \in 1..n}

Prefixes == {<<>>, <<Item(JInt(1), Ts(2, "Z"), JInt(5))>>}

Suffixes ==
    {<<>>,
     <<Item(JInt(1), Ts(4, "+01:00"), JInt(5))>>,
     <<Item(JInt(1), Ts(1, "bad"), JInt(5))>>,
     <<Item(Null, Ts(1, "Z"), JInt(5))>>}

BadBatches ==
    {b \in {pre \o <<x>> \o suf : pre \in Prefixes, x \in BadItems, suf \in Suffixes} :
        Len(b) <= MaxBatch}

Payloads ==
    {Payload("list", b) : b \in SeqsUpTo(ValidItems, MaxBatch) \cup BadBatches \cup {<<>>}}
    \cup {Payload("single", <<x>>) : x \in ValidItems \cup BadItems}
    \cup {NoPayload}

QueryArgs ==
    {Args(NumStr(1), d, h, l, o) :
        d \in {Absent, Ts(2, "Z"), Text("ayer")},
        h \in {Absent, Ts(2, ""), Text("")},
        l \in {Absent, NumStr(2)},
        o \in {Absent, Text("asc"), Text("ASC"), Text("ascending")}}
    \cup {Args(NumStr(1), Absent, Absent, l, o) :
            l \in {NumStr(0), NumStr(1), Text("diez")},
            o \in {Text("desc"), Text("asc")}}
    \cup {Args(s, Absent, Absent, Absent, Absent) :
            s \in {Absent, NumStr(0), NumStr(2), NumStr(3), Text("uno")}}
    \cup {Args(NumStr(0), Ts(2, "Z"), Absent, NumStr(2), Text("asc"))}

Queries ==
    {Request("query", NoPayload, a, FALSE) : a \in QueryArgs}
    \cup {Request("query", NoPayload, a, TRUE) :
            a \in {Args(NumStr(1), Absent, Absent, Absent, Absent),
                   Args(NumStr(1), Text("ayer"), Absent, Absent, Absent),
                   Args(Absent, Absent, Absent, Absent, Absent)}}

(***************************************************************************)
(* One request at a time: each request runs from start to end before the   *)
(* next one starts.                                                        *)
(***************************************************************************)
Workers == {1, 2}

ConcInit ==
    /\ pc = [w \in Workers |-> "idle"]
    /\ lote = [w \in Workers |-> <<>>]
    /\ idx = [w \in Workers |-> 0]
    /\ sesion = [w \in Workers |-> TxVacia]
    /\ salida = [w \in Workers |-> NoResp]
    /\ orden = <<>>
    /\ historia = <<mediciones>>

Init ==
    /\ sensores = Catalogo
    /\ mediciones = {}
    /\ antes = {}
    /\ req = NoRequest
    /\ resp = NoResp
    /\ ConcInit

Ingest ==
    \E payload \in Payloads :
        LET o == crear_mediciones(payload, mediciones, sensores) IN
        /\ req' = Request("ingest", payload, NoArgs, FALSE)
        /\ resp' = o.resp
        /\ antes' = mediciones
        /\ mediciones' = o.tabla
        /\ UNCHANGED <<sensores, conc>>

Query ==
    \E q \in Queries :
        LET r == consultar_mediciones(q.args, mediciones, q.fault) IN
        /\ req' = q
        /\ resp' = r
        /\ antes' = mediciones
        /\ mediciones' = TrasConsulta(r, mediciones)
        /\ UNCHANGED <<sensores, conc>>

Next == Ingest \/ Query

Spec == Init /\ [][Next]_vars

(***************************************************************************)
(* Concurrent requests: two workers run crear_mediciones at the same time, *)
(* each with its own session, against a database with READ COMMITTED       *)
(* isolation.  A worker's steps are the statements it sends: the flush at  *)
(* the start of each merge, the SELECT of the merge, the flush of commit,  *)
(* and COMMIT.                                                             *)
(***************************************************************************)
ConcItems ==
    {Item(JInt(1), Ts(1, "Z"), JInt(5)),
     Item(JInt(1), Ts(1, "Z"), JInt(9)),
     Item(JInt(1), Ts(2, "Z"), JInt(5)),
     Item(JInt(1), Ts(2, "Z"), JInt(9))}

ConcPayloads == {Payload("list", b) : b \in SeqsUpTo(ConcItems, MaxBatch)}

ConcTablas ==
    {{}, {Medicion(1, 1, 5)}, {Medicion(1, 1, 5), Medicion(1, 2, 5)}}

InitConc ==
    /\ sensores = Catalogo
    /\ mediciones \in ConcTablas
    /\ antes = mediciones
    /\ req = NoRequest
    /\ resp = NoResp
    /\ ConcInit

\* the keys other transactions have written and not committed
Ajenos(w) == UNION {Keys({x.row : x \in sesion[v].escritos}) : v \in Workers \ {w}}

\* the validation loop runs inside the worker: no other worker sees it
RecibirDe(w, payloads) ==
    /\ pc[w] = "idle"
    /\ \E payload \in payloads :
        LET v == Validar(ItemsOf(payload)) IN
        /\ v.st = "ok"
        /\ lote' = [lote EXCEPT ![w] = v.meds]
        /\ idx' = [idx EXCEPT ![w] = 1]
        /\ pc' = [pc EXCEPT ![w] = "flush"]
    /\ UNCHANGED <<sensores, mediciones, antes, req, resp, sesion, salida, orden, historia>>

Recibir(w) == RecibirDe(w, ConcPayloads)

\* an except clause that answers the failure and leaves the transaction open
Fallar_sin_rollback(w) ==
    /\ UNCHANGED sesion
    /\ mediciones' = rollback(mediciones, sesion[w])
    /\ salida' = [salida EXCEPT
                    ![w] = fail("No se pudieron guardar las mediciones", 0, "", TRUE)]
    /\ pc' = [pc EXCEPT ![w] = "done"]
    /\ UNCHANGED <<sensores, antes, req, resp, lote, idx, orden, historia>>

\* except Exception: db.session.rollback(); return fail(...)
Fallar(w) ==
    /\ sesion' = [sesion EXCEPT ![w] = TxVacia]
    /\ mediciones' = rollback(mediciones, sesion[w])
    /\ salida' = [salida EXCEPT
                    ![w] = fail("No se pudieron guardar las mediciones", 0, "", TRUE)]
    /\ pc' = [pc EXCEPT ![w] = "done"]
    /\ UNCHANGED <<sensores, antes, req, resp, lote, idx, orden, historia>>

\* the flush that starts a merge, or the one of commit after the last merge
Flush(w) ==
    /\ pc[w] = "flush"
    /\ LET f == flush(sesion[w], mediciones, sensores, Ajenos(w)) IN
       \/ /\ f.st = "ok"
          /\ sesion' = [sesion EXCEPT ![w] = f.tx]
          /\ pc' = [pc EXCEPT ![w] = IF idx[w] > Len(lote[w]) THEN "commit" ELSE "select"]
          /\ UNCHANGED <<sensores, mediciones, antes, req, resp, lote, idx, salida, orden,
                         historia>>
       \/ /\ f.st = "error"
          /\ Fallar(w)

\* the rest of merge: identity map, else SELECT by primary key
Select(w) ==
    /\ pc[w] = "select"
    /\ sesion' = [sesion EXCEPT ![w] = merge_lookup(sesion[w], mediciones, lote[w][idx[w]])]
    /\ idx' = [idx EXCEPT ![w] = idx[w] + 1]
    /\ pc' = [pc EXCEPT ![w] = "flush"]
    /\ UNCHANGED <<sensores, mediciones, antes, req, resp, lote, salida, orden, historia>>

Commit(w) ==
    /\ pc[w] = "commit"
    /\ mediciones' = commit(mediciones, sesion[w])
    /\ sesion' = [sesion EXCEPT ![w] = TxVacia]
    /\ salida' = [salida EXCEPT ![w] = ok_insertados(Len(lote[w]))]
    /\ orden' = Append(orden, w)
    /\ historia' = Append(historia, commit(mediciones, sesion[w]))
    /\ pc' = [pc EXCEPT ![w] = "done"]
    /\ UNCHANGED <<sensores, antes, req, resp, lote, idx>>

\* w waits for a write of another worker to commit or roll back
Espera(w) ==
    /\ pc[w] = "flush"
    /\ flush(sesion[w], mediciones, sensores, Ajenos(w)).st = "blocked"

\* two workers wait for each other: the database ends one of them with an
\* error, which the handler's except clause takes
Abortar(w) ==
    /\ Espera(w)
    /\ \E v \in Workers \ {w} : Espera(v)
    /\ Fallar(w)

NextConc ==
    \E w \in Workers : Recibir(w) \/ Flush(w) \/ Select(w) \/ Commit(w) \/ Abortar(w)

SpecConc == InitConc /\ [][NextConc]_vars

(***************************************************************************)
(* Catalog: sensors are deleted from sensores while batches are ingested.  *)
(* mediciones.id_sensor is declared ForeignKey("sensores.id_sensor",       *)
(* ondelete="CASCADE"): the DELETE of a sensor deletes the sensor's        *)
(* readings in the same statement.  The DELETE waits while a transaction   *)
(* holds an uncommitted write of a reading of the sensor: an INSERT locks  *)
(* the sensor row it references, an UPDATE locks the reading.              *)
(***************************************************************************)
CatItems ==
    {Item(JInt(1), Ts(1, "Z"), JInt(9)),
     Item(JInt(2), Ts(1, "Z"), JInt(9)),
     Item(JInt(3), Ts(1, "Z"), JInt(9))}

CatPayloads ==
    {Payload("single", <<a>>) : a \in CatItems}
    \cup {Payload("list", <<a, b>>) : a \in CatItems, b \in CatItems}

CatTablas == {{}, {Medicion(1, 1, 5), Medicion(2, 1, 5)}}

InitCat ==
    /\ sensores = Catalogo
    /\ mediciones \in CatTablas
    /\ antes = mediciones
    /\ req = NoRequest
    /\ resp = NoResp
    /\ ConcInit

RecibirCat(w) == RecibirDe(w, CatPayloads)

\* ON DELETE CASCADE: the readings of the deleted sensor go with it
Cascada(tabla, s) == {r \in tabla : r.id_sensor # s}

\* the uncommitted writes, of any transaction, of readings of sensor s
EscritosDe(s) == {x \in UNION {sesion[w].escritos : w \in Workers} : x.row.id_sensor = s}

BorrarSensor(s) ==
    /\ s \in sensores
    /\ EscritosDe(s) = {}
    /\ sensores' = sensores \ {s}
    /\ mediciones' = Cascada(mediciones, s)
    /\ historia' = Append(historia, Cascada(mediciones, s))
    /\ UNCHANGED <<antes, req, resp, pc, lote, idx, sesion, salida, orden>>

NextCat ==
    \/ \E w \in Workers :
          RecibirCat(w) \/ Flush(w) \/ Select(w) \/ Commit(w) \/ Abortar(w)
    \/ \E s \in Catalogo : BorrarSensor(s)

SpecCat == InitCat /\ [][NextCat]_vars

(***************************************************************************)
(* Mixed: a GET /mediciones runs while two batches are ingested.  The      *)
(* query's handler sends one SELECT, in a session of its own; the request  *)
(* is in req from its arrival and its response in resp once it answered.   *)
(***************************************************************************)
MixItems ==
    [p5 |-> Item(JInt(1), Ts(1, "Z"), JInt(5)),
     p9 |-> Item(JInt(1), Ts(1, "Z"), JInt(9)),
     q9 |-> Item(JInt(1), Ts(2, "Z"), JInt(9)),
     x9 |-> Item(JInt(3), Ts(1, "Z"), JInt(9))]

MixPayloads ==
    {Payload("single", <<MixItems.p5>>),
     Payload("list", <<MixItems.p9, MixItems.q9>>),
     Payload("list", <<MixItems.q9, MixItems.p9>>),
     Payload("list", <<MixItems.p9, MixItems.x9>>)}

MixTablas == {{}, {Medicion(1, 1, 5), Medicion(1, 2, 5)}}

MixArgs ==
    {Args(NumStr(1), Absent, Absent, Absent, Absent),
     Args(NumStr(1), Absent, Ts(1, "Z"), NumStr(1), Text("asc")),
     Args(Absent, Absent, Absent, Absent, Absent)}

MixQueries ==
    {Request("query", NoPayload, a, FALSE) : a \in MixArgs}
    \cup {Request("query", NoPayload, Args(NumStr(1), Absent, Absent, Absent, Absent), TRUE)}

InitMix ==
    /\ sensores = Catalogo
    /\ mediciones \in MixTablas
    /\ antes = mediciones
    /\ req = NoRequest
    /\ resp = NoResp
    /\ ConcInit

RecibirMix(w) == RecibirDe(w, MixPayloads)

RecibirConsulta ==
    /\ req = NoRequest
    /\ req' \in MixQueries
    /\ UNCHANGED <<sensores, mediciones, antes, resp, conc>>

\* a SELECT that reads the rows other transactions wrote and did not commit
Leido_sucio(tabla, escritos) == Aplicar(tabla, escritos)

\* the rows a SELECT reads: the committed ones
Leido(tabla, escritos) == tabla

Responder ==
    /\ req.op = "query"
    /\ resp = NoResp
    /\ LET r == consultar_mediciones(
                    req.args,
                    Leido(mediciones, UNION {sesion[w].escritos : w \in Workers}),
                    req.fault)
       IN  /\ resp' = r
           /\ mediciones' = TrasConsulta(r, mediciones)
    /\ UNCHANGED <<sensores, antes, req, conc>>

NextMix ==
    \/ \E w \in Workers :
          RecibirMix(w) \/ Flush(w) \/ Select(w) \/ Commit(w) \/ Abortar(w)
    \/ RecibirConsulta
    \/ Responder

SpecMix == InitMix /\ [][NextMix]_vars

\* a request that has arrived is served: each worker's next statement runs
\* when it can, the database ends one of two transactions that wait for
\* each other, and the query's SELECT runs
SpecMixFair ==
    /\ SpecMix
    /\ \A w \in Workers : WF_vars(Flush(w) \/ Select(w) \/ Commit(w) \/ Abortar(w))
    /\ WF_vars(Responder)

(***************************************************************************)
(* Bulk: one sensor receives readings at instants 1, 2, 3, ... one request *)
(* each, and is queried with and without a limit.                          *)
(***************************************************************************)
BulkLimits == {Absent, NumStr(DefaultLimit + 20), NumStr(DefaultLimit - 1)}

BulkOrders == {Absent, Text("asc")}

IngestSiguiente ==
    /\ Cardinality(mediciones) < MaxBulk
    /\ LET payload == Payload("single",
                              <<Item(JInt(1), Ts(Cardinality(mediciones) + 1, "Z"), JInt(5))>>)
           o == crear_mediciones(payload, mediciones, sensores)
       IN  /\ req' = Request("ingest", payload, NoArgs, FALSE)
           /\ resp' = o.resp
           /\ antes' = mediciones
           /\ mediciones' = o.tabla
    /\ UNCHANGED <<sensores, conc>>

QueryLimite ==
    \E l \in BulkLimits, o \in BulkOrders :
        LET a == Args(NumStr(1), Absent, Absent, l, o)
            r == consultar_mediciones(a, mediciones, FALSE)
        IN  /\ req' = Request("query", NoPayload, a, FALSE)
            /\ resp' = r
            /\ antes' = mediciones
            /\ mediciones' = TrasConsulta(r, mediciones)
            /\ UNCHANGED <<sensores, conc>>

NextLimit == IngestSiguiente \/ QueryLimite

SpecLimit == Init /\ [][NextLimit]_vars

(***************************************************************************)
(* Vocabulary of the properties.                                           *)
(***************************************************************************)
ReqItems == ItemsOf(req.payload)

ReqMeds == Validar(ReqItems).meds

EsIngest == req.op = "ingest" /\ req.payload.kind # "none"

\* the value the last item of the list with key k carries
UltimoValor(meds, k) ==
    meds[CHOOSE i \in 1..Len(meds) :
            /\ pk(meds[i]) = k
            /\ \A j \in 1..Len(meds) : pk(meds[j]) = k => j <= i].valor

Efecto(meds) ==
    {Medicion(meds[i].id_sensor, meds[i].fecha_hora, UltimoValor(meds, pk(meds[i]))) :
        i \in 1..Len(meds)}

Malos(items) == {i \in 1..Len(items) : ValidarItem(items[i]).st = "raise"}

Minimo(S) == CHOOSE x \in S : \A y \in S : x <= y

InstanteDe(fila) == parse_iso_datetime(fila.fecha_hora).dt

QSensor == req.args.id_sensor.n

SensorDado == req.args.id_sensor.tag = "numstr" /\ req.args.id_sensor.n # 0

Dado(x) == x.tag # "absent" /\ x # Text("")

BienFormado(x) == ~Dado(x) \/ (x.tag = "ts" /\ x.zone # "bad")

PideAsc == req.args.order \in {Text("asc"), Text("ASC"), Text("Asc")}

LimitePedido == IF req.args.limit.tag = "numstr" THEN req.args.limit.n ELSE 100

Coinciden ==
    {r \in antes :
        /\ r.id_sensor = QSensor
        /\ Dado(req.args.desde) => r.fecha_hora >= parse_iso_datetime(req.args.desde).dt
        /\ Dado(req.args.hasta) => r.fecha_hora <= parse_iso_datetime(req.args.hasta).dt}

Min2(a, b) == IF a < b THEN a ELSE b

Antecede(t, u) == IF PideAsc THEN t < u ELSE t > u

ClavesDe(meds) == {pk(meds[i]) : i \in 1..Len(meds)}

EnSerie(primero, segundo) ==
    Persistir(lote[segundo], Persistir(lote[primero], antes, sensores).tabla, sensores).tabla

(***************************************************************************)
(* C1.  The table holds at most one reading per (id_sensor, fecha_hora),   *)
(* and a request that carries one valid reading whose key is already       *)
(* stored succeeds, adds no row and leaves the new value under the key: a  *)
(* query of that sensor at that instant returns exactly that one reading.  *)
(***************************************************************************)
C1_UnaPorClave ==
    /\ \A r1, r2 \in mediciones : pk(r1) = pk(r2) => r1 = r2
    /\ (EsIngest /\ Len(ReqItems) = 1 /\ Validar(ReqItems).st = "ok"
            /\ pk(ReqMeds[1]) \in Keys(antes))
       => LET m == ReqMeds[1]
              t == isoformat(m.fecha_hora)
              q == Args(NumStr(m.id_sensor), t, t, Absent, Absent)
          IN  /\ resp.ok
              /\ {r \in mediciones : pk(r) = pk(m)} = {m}
              /\ Keys(mediciones) = Keys(antes)
              /\ consultar_mediciones(q, mediciones, FALSE).data
                    = <<[id_sensor |-> m.id_sensor, fecha_hora |-> t, valor |-> m.valor]>>

\* a stored reading was replaced by one with another value
C1_Reemplazo ==
    /\ EsIngest /\ Len(ReqItems) = 1 /\ Validar(ReqItems).st = "ok" /\ resp.ok
    /\ \E r \in antes : pk(r) = pk(ReqMeds[1]) /\ r.valor # ReqMeds[1].valor

(***************************************************************************)
(* C2.  When some item of the batch fails coercion or timestamp parsing,   *)
(* the table is what it was before the request and the response is the     *)
(* structured failure that names the position of the first such item.      *)
(***************************************************************************)
C2_RechazoConPosicion ==
    (EsIngest /\ Malos(ReqItems) # {})
    => /\ mediciones = antes
       /\ resp.kind = "fail"
       /\ resp.item = Minimo(Malos(ReqItems))

(***************************************************************************)
(* C3.  A validated batch is stored whole or not at all: when one of its   *)
(* readings names a sensor that is not in the catalog the request fails    *)
(* and the table is what it was before, also for the readings merged       *)
(* before that one; otherwise the request succeeds and every reading of    *)
(* the batch is stored.                                                    *)
(***************************************************************************)
C3_TodoONada ==
    (EsIngest /\ Validar(ReqItems).st = "ok")
    => IF \A i \in 1..Len(ReqMeds) : ReqMeds[i].id_sensor \in sensores
       THEN /\ resp.ok
            /\ Efecto(ReqMeds) \subseteq mediciones
            /\ \A r \in mediciones : pk(r) \notin Keys(Efecto(ReqMeds)) => r \in antes
       ELSE /\ resp.kind = "fail"
            /\ resp.error = "No se pudieron guardar las mediciones"
            /\ mediciones = antes

\* the failing reading came after one that had been flushed as a new row
C3_Deshecho ==
    /\ EsIngest /\ Validar(ReqItems).st = "ok" /\ resp.kind = "fail"
    /\ Len(ReqMeds) >= 2
    /\ ReqMeds[1].id_sensor \in sensores
    /\ pk(ReqMeds[1]) \notin Keys(antes)
    /\ ReqMeds[2].id_sensor \notin sensores

(***************************************************************************)
(* C4.  A batch that was applied with success and is sent again succeeds   *)
(* again and leaves the table as the first application left it.            *)
(***************************************************************************)
C4_Idempotente ==
    [][(EsIngest /\ resp.ok /\ req' = req) => (resp'.ok /\ mediciones' = mediciones)]_vars

\* the same batch was applied to a table that already held all it writes
C4_Repetido ==
    /\ EsIngest /\ resp.ok /\ Len(ReqItems) >= 2
    /\ antes = mediciones
    /\ Efecto(ReqMeds) \subseteq antes

(***************************************************************************)
(* C5.  Two concurrent batches that write a common (id_sensor, fecha_hora) *)
(* both succeed, the table ends as if one had run after the other, and     *)
(* each common key holds the value of the batch that committed last.       *)
(***************************************************************************)
C5_UltimoGana ==
    ((\A w \in Workers : pc[w] = "done") /\ ClavesDe(lote[1]) \cap ClavesDe(lote[2]) # {})
    => /\ \A w \in Workers : salida[w].ok
       /\ mediciones \in {EnSerie(1, 2), EnSerie(2, 1)}
       /\ \A k \in ClavesDe(lote[1]) \cap ClavesDe(lote[2]) :
             \E r \in mediciones :
                pk(r) = k /\ r.valor = UltimoValor(lote[orden[Len(orden)]], k)

(***************************************************************************)
(* C6.  A query with a non-zero sensor, well-formed bounds and no database *)
(* error succeeds, also when nothing matches, and its result is the first  *)
(* `limit` readings of that sensor with desde <= fecha_hora <= hasta (each *)
(* bound when given, both inclusive) in the requested order of instants.   *)
(***************************************************************************)
C6_Resultado ==
    /\ (req.op = "query" /\ SensorDado /\ BienFormado(req.args.desde)
            /\ BienFormado(req.args.hasta) /\ ~req.fault) => resp.ok
    /\ (req.op = "query" /\ resp.ok)
       => LET data == resp.data IN
          /\ Len(data) = Min2(LimitePedido, Cardinality(Coinciden))
          /\ \A i \in 1..Len(data) :
                \E r \in Coinciden :
                    /\ data[i].id_sensor = r.id_sensor
                    /\ InstanteDe(data[i]) = r.fecha_hora
                    /\ data[i].valor = r.valor
          /\ \A i, j \in 1..Len(data) :
                i < j => Antecede(InstanteDe(data[i]), InstanteDe(data[j]))
          /\ \A r \in Coinciden :
                (\A i \in 1..Len(data) : InstanteDe(data[i]) # r.fecha_hora)
                => \A i \in 1..Len(data) : Antecede(InstanteDe(data[i]), r.fecha_hora)

\* both bounds given and equal to a stored instant, with stored readings of
\* the sensor before and after it and a reading of another sensor
C6_Acotado ==
    /\ req.op = "query" /\ resp.ok
    /\ Dado(req.args.desde) /\ Dado(req.args.hasta)
    /\ Len(resp.data) = 1
    /\ InstanteDe(resp.data[1]) = parse_iso_datetime(req.args.desde).dt
    /\ InstanteDe(resp.data[1]) = parse_iso_datetime(req.args.hasta).dt
    /\ \E r \in antes : r.id_sensor = QSensor /\ r.fecha_hora < InstanteDe(resp.data[1])
    /\ \E r \in antes : r.id_sensor = QSensor /\ r.fecha_hora > InstanteDe(resp.data[1])
    /\ \E r \in antes : r.id_sensor # QSensor

(***************************************************************************)
(* C7.  The result is by decreasing instant, most recent first, unless the *)
(* order parameter is the ascending token; no order token makes the query  *)
(* fail.                                                                   *)
(***************************************************************************)
C7_Orden ==
    req.op = "query"
    => /\ (resp.kind = "fail" =>
              \/ ~SensorDado
              \/ ~BienFormado(req.args.desde)
              \/ ~BienFormado(req.args.hasta)
              \/ req.fault)
       /\ \A i \in 1..Len(resp.data) :
             \A r \in Coinciden :
                IF PideAsc
                THEN r.fecha_hora < InstanteDe(resp.data[i])
                     => \E j \in 1..(i - 1) : InstanteDe(resp.data[j]) = r.fecha_hora
                ELSE r.fecha_hora > InstanteDe(resp.data[i])
                     => \E j \in 1..(i - 1) : InstanteDe(resp.data[j]) = r.fecha_hora

\* an order token that is not the ascending one: newest first
C7_TokenDesconocido ==
    /\ req.op = "query" /\ resp.ok
    /\ req.args.order = Text("ascending")
    /\ Len(resp.data) >= 2
    /\ InstanteDe(resp.data[1]) > InstanteDe(resp.data[2])

(***************************************************************************)
(* C8.  Without a limit parameter the query returns at most 100 readings:  *)
(* all of them when at most 100 match, else exactly 100, and under the     *)
(* default order the i-th of them has exactly i-1 matching readings after  *)
(* it in time.  A limit parameter takes the place of 100, above 100 too.   *)
(***************************************************************************)
C8_LimitePorDefecto ==
    (req.op = "query" /\ resp.ok)
    => /\ req.args.limit.tag = "absent"
          => Len(resp.data) = Min2(100, Cardinality(Coinciden))
       /\ req.args.limit.tag = "numstr"
          => Len(resp.data) = Min2(req.args.limit.n, Cardinality(Coinciden))
       /\ req.args.order.tag = "absent"
          => \A i \in 1..Len(resp.data) :
                Cardinality({r \in Coinciden : r.fecha_hora > InstanteDe(resp.data[i])})
                    = i - 1

\* 150 readings stored, no limit given: 100 returned
C8_Truncado ==
    /\ req.op = "query" /\ resp.ok
    /\ req.args.limit.tag = "absent" /\ req.args.order.tag = "absent"
    /\ Cardinality(Coinciden) = 150
    /\ Len(resp.data) = 100

(***************************************************************************)
(* C9.  A query without id_sensor, or with id_sensor 0, fails with the     *)
(* missing-parameter error, status 400, and carries no reading; every      *)
(* reading a query returns is of the one sensor it asked for.              *)
(***************************************************************************)
C9_SensorObligatorio ==
    req.op = "query"
    => /\ ~SensorDado
          => /\ resp.kind = "fail"
             /\ resp.status = 400
             /\ resp.error = "Parametro id_sensor es obligatorio"
             /\ resp.data = <<>>
       /\ \A i \in 1..Len(resp.data) : SensorDado /\ resp.data[i].id_sensor = QSensor

\* id_sensor=0 asked of a table that holds readings
C9_Cero ==
    /\ req.op = "query"
    /\ req.args.id_sensor = NumStr(0)
    /\ antes # {}
    /\ resp.kind = "fail"

(***************************************************************************)
(* C10.  Every request that does not succeed ends in the structured        *)
(* failure response {ok: false, error: ...} with status 400.               *)
(***************************************************************************)
C10_FalloEstructurado ==
    (req.op # "none" /\ ~resp.ok) => (resp.kind = "fail" /\ resp.status = 400)

(***************************************************************************)
(* C11.  While batches are ingested and sensors are deleted in any         *)
(* interleaving, every stored reading is of a sensor that is in the        *)
(* catalog; a batch with a reading of a sensor the catalog never held ends *)
(* in the persistence failure; and the step that deletes a sensor removes  *)
(* exactly that sensor's readings.                                         *)
(***************************************************************************)
C11_Referencial ==
    /\ [](\A r \in mediciones : r.id_sensor \in sensores)
    /\ [](\A w \in Workers :
            (pc[w] = "done" /\ \E i \in 1..Len(lote[w]) : lote[w][i].id_sensor \notin Catalogo)
            => /\ salida[w].kind = "fail"
               /\ salida[w].status = 400
               /\ salida[w].error = "No se pudieron guardar las mediciones"
               /\ salida[w].details)
    /\ [][sensores' # sensores
           => mediciones' = {r \in mediciones : r.id_sensor \in sensores'}]_vars

\* sensor 1 is deleted with a reading stored, sensor 2 keeps its own, and a
\* batch for sensor 1 that was in progress has failed
C11_Borrado ==
    /\ sensores = {2}
    /\ Medicion(1, 1, 5) \in antes
    /\ Medicion(2, 1, 5) \in mediciones
    /\ \E w \in Workers :
         /\ pc[w] = "done"
         /\ lote[w] = <<Medicion(1, 1, 9)>>
         /\ salida[w].kind = "fail"

(***************************************************************************)
(* C12.  With every arrived request served fairly, each batch that has     *)
(* started and each query that has started comes to its response, a        *)
(* success or a failure, also when two batches write the same pairs in     *)
(* opposite item orders.                                                   *)
(***************************************************************************)
C12_Termina ==
    /\ \A w \in Workers : (pc[w] # "idle") ~> (pc[w] = "done" /\ salida[w].kind \in {"ok", "fail"})
    /\ (req.op = "query") ~> (resp.kind \in {"ok", "fail"})

\* two batches of the same pairs in opposite orders waited for each other:
\* one was ended with the failure, the other committed, the query answered
C12_Cruzados ==
    /\ \E w, v \in Workers :
         /\ lote[w] = <<Medicion(1, 1, 9), Medicion(1, 2, 9)>>
         /\ lote[v] = <<Medicion(1, 2, 9), Medicion(1, 1, 9)>>
         /\ pc[w] = "done" /\ salida[w].kind = "fail"
         /\ pc[v] = "done" /\ salida[v].kind = "ok"
    /\ antes = {}
    /\ resp.kind = "ok"

(***************************************************************************)
(* C13.  A batch that succeeds answers status 201 with insertados equal to *)
(* the number of items of the request body; each of the items was merged:  *)
(* one reading per item was built and the table holds a reading with each  *)
(* item's key.                                                             *)
(***************************************************************************)
C13_Cuenta ==
    (EsIngest /\ resp.ok)
    => /\ resp.status = 201
       /\ resp.insertados = Len(ReqItems)
       /\ Len(ReqMeds) = Len(ReqItems)
       /\ ClavesDe(ReqMeds) \subseteq Keys(mediciones)

\* a batch of two keys, one stored before and one new, answers 2
C13_Dos ==
    /\ EsIngest
    /\ resp.ok
    /\ resp.insertados = 2
    /\ Cardinality(ClavesDe(ReqMeds)) = 2
    /\ Cardinality(ClavesDe(ReqMeds) \cap Keys(antes)) = 1

(***************************************************************************)
(* C14.  A timestamp text without zone parses to the instant the same text *)
(* with Z parses to, so an item sent without zone is stored under the key  *)
(* the Z form has.  A batch with a timestamp text that does not parse      *)
(* stores nothing, and when that text is the first defect of the batch the *)
(* answer is the validation failure that names the item and fecha_hora.    *)
(***************************************************************************)
C14_SinZonaEsUTC ==
    /\ \A n \in 1..4 :
         /\ parse_iso_datetime(Ts(n, "")) = parse_iso_datetime(Ts(n, "Z"))
         /\ parse_iso_datetime(Ts(n, "")).ok
         /\ ~parse_iso_datetime(Ts(n, "bad")).ok
    /\ (EsIngest /\ resp.ok)
       => \A i \in 1..Len(ReqItems) :
            ReqItems[i].fecha_hora.zone \in {"", "Z"}
            => \E r \in mediciones :
                 /\ r.id_sensor = ReqItems[i].id_sensor.n
                 /\ r.fecha_hora = ReqItems[i].fecha_hora.n
    /\ (EsIngest /\ \E i \in 1..Len(ReqItems) : ReqItems[i].fecha_hora.zone = "bad")
       => /\ ~resp.ok
          /\ mediciones = antes
    /\ (EsIngest /\ Malos(ReqItems) # {})
       => LET i == Minimo(Malos(ReqItems)) IN
          (/\ ReqItems[i].id_sensor.tag \in {"int", "numstr"}
           /\ ReqItems[i].fecha_hora.zone = "bad")
          => /\ resp.kind = "fail"
             /\ resp.status = 400
             /\ resp.item = i
             /\ resp.motivo = "fecha_hora"

\* the reading stored from the Z text with value 5 is the one the same text
\* without zone, sent with value 9, has replaced
C14_MismaLectura ==
    /\ EsIngest
    /\ ReqItems = <<Item(JInt(1), Ts(1, ""), JInt(9))>>
    /\ resp.ok
    /\ Medicion(1, 1, 5) \in antes
    /\ Medicion(1, 1, 9) \in mediciones
    /\ Keys(mediciones) = Keys(antes)

(***************************************************************************)
(* C15.  The answer of a query that runs while batches are ingested is the *)
(* answer the query has over a committed table: the one at the start or    *)
(* the one right after a whole batch committed.  No table between two      *)
(* statements of a batch is read, and none with writes that are rolled     *)
(* back: each reading of a committed table was there at the start or is   *)
(* an item of a batch that committed.  After a batch commits the table     *)
(* holds every key of the batch.                                           *)
(***************************************************************************)
C15_SinLecturaParcial ==
    /\ (req.op = "query" /\ resp # NoResp)
       => \E i \in 1..Len(historia) :
            resp = consultar_mediciones(req.args, historia[i], req.fault)
    /\ \A k \in 1..Len(orden) : ClavesDe(lote[orden[k]]) \subseteq Keys(historia[k + 1])
    /\ \A i \in 1..Len(historia) :
         \A r \in historia[i] :
            \/ r \in antes
            \/ \E k \in 1..Len(orden) :
                 \E j \in 1..Len(lote[orden[k]]) : lote[orden[k]][j] = r

\* the query answered with the readings one batch committed, while the
\* other batch, which had flushed its first item, was rolled back
C15_Entera ==
    /\ req.op = "query"
    /\ resp.ok
    /\ Len(resp.data) = 2
    /\ antes = {}
    /\ \E w, v \in Workers :
         /\ lote[w] = <<Medicion(1, 1, 9), Medicion(1, 2, 9)>>
         /\ salida[w].kind = "ok"
         /\ lote[v] = <<Medicion(1, 1, 9), Medicion(3, 1, 9)>>
         /\ salida[v].kind = "fail"

(***************************************************************************)
(* C16.  With no sensor deleted, no request, batch or query, successful or *)
(* failed, removes a stored key: the keys before it are keys after it.  A  *)
(* key that is new after a request is a key of an item of a batch that     *)
(* succeeded.                                                              *)
(***************************************************************************)
C16_NuncaBorra ==
    /\ Keys(antes) \subseteq Keys(mediciones)
    /\ Keys(mediciones) # Keys(antes)
       => /\ EsIngest
          /\ resp.ok
          /\ Keys(mediciones) \ Keys(antes) \subseteq ClavesDe(ReqMeds)

\* a batch adds a key to a table that holds two others
C16_Crece ==
    /\ EsIngest
    /\ resp.ok
    /\ Cardinality(Keys(antes)) = 2
    /\ Cardinality(Keys(mediciones)) = 3
    /\ Len(ReqItems) = 1

(***************************************************************************)
(* C17.  A query leaves the table as it found it, whatever it was asked    *)
(* and however it ended: answered with readings, refused for a missing     *)
(* id_sensor or a malformed desde or hasta, or failed in the database.     *)
(***************************************************************************)
C17_SoloLectura ==
    req.op = "query"
    => /\ mediciones = antes
       /\ resp.kind \in {"ok", "fail"}

\* a query answered with three readings, which the table keeps
C17_Leidas ==
    /\ req.op = "query"
    /\ resp.ok
    /\ Len(resp.data) = 3
    /\ Cardinality(mediciones) > 3

(***************************************************************************)
(* C18.  After a batch that succeeds, every reading whose key is not a key *)
(* of the batch is as it was, key and value, and none with such a key      *)
(* appears; a reading whose key is a key of the batch and was stored       *)
(* before is still one reading with that key, and its value is the one the *)
(* batch gives the key.                                                    *)
(***************************************************************************)
C18_SoloLasDelLote ==
    (EsIngest /\ resp.ok)
    => /\ {r \in antes : pk(r) \notin ClavesDe(ReqMeds)}
          = {r \in mediciones : pk(r) \notin ClavesDe(ReqMeds)}
       /\ \A r \in antes :
            pk(r) \in ClavesDe(ReqMeds)
            => {x \in mediciones : pk(x) = pk(r)}
               = {Medicion(r.id_sensor, r.fecha_hora, UltimoValor(ReqMeds, pk(r)))}

\* sensor 1 has two readings and sensor 2 one; a batch replaces the value
\* of one reading of sensor 1
C18_UnaCambia ==
    /\ EsIngest
    /\ resp.ok
    /\ antes = {Medicion(1, 1, 5), Medicion(1, 2, 5), Medicion(2, 1, 9)}
    /\ mediciones = {Medicion(1, 1, 9), Medicion(1, 2, 5), Medicion(2, 1, 9)}

(***************************************************************************)
(* C19.  A batch of valid items of known sensors in which two or more      *)
(* items have the same key succeeds, whether the key was stored before or  *)
(* not: the answer counts every item, and the table holds one reading with *)
(* the key, with the value of the last of those items.                     *)
(***************************************************************************)
C19_RepetidaEnLote ==
    (/\ EsIngest
     /\ Malos(ReqItems) = {}
     /\ \A i \in 1..Len(ReqMeds) : ReqMeds[i].id_sensor \in sensores
     /\ Cardinality(ClavesDe(ReqMeds)) < Len(ReqMeds))
    => /\ resp.ok
       /\ resp.insertados = Len(ReqItems)
       /\ \A k \in ClavesDe(ReqMeds) :
            /\ Cardinality({x \in mediciones : pk(x) = k}) = 1
            /\ \A x \in mediciones : pk(x) = k => x.valor = UltimoValor(ReqMeds, k)

\* the two items have one key, which was not stored; the last one's value
\* is the one stored
C19_DosVeces ==
    /\ EsIngest
    /\ ReqItems = <<Item(JInt(1), Ts(1, "Z"), JInt(5)), Item(JInt(1), Ts(1, ""), JInt(9))>>
    /\ antes = {}
    /\ resp.ok
    /\ resp.insertados = 2
    /\ mediciones = {Medicion(1, 1, 9)}

============================================================================
